---- MODULE Spec2Model ----
(***************************************************************************)
(* StabilityApp batch jobs.                                                *)
(*   load_survey_data        (database/load_data.py): CSV rows -> store    *)
(*   generate_sample_report  (scripts/report_generator.py): store -> PDF   *)
(* The loader runs inside one pyodbc transaction (autocommit off); the     *)
(* report job reads the committed store once the loader has ended.         *)
(***************************************************************************)
EXTENDS Integers, Sequences, FiniteSets, TLC

(***************************************************************************)
(* Values.  A CSV cell, a Python local and a table column are all          *)
(* optional: [na, v].  na = TRUE is pandas NaN / Python None / SQL NULL.   *)
(* Numbers with decimals are kept in fixed point: rate columns in tenths   *)
(* (37 is 3.7), instability_ratio in hundredths (42 is 0.42).              *)
(***************************************************************************)
Val(x) == [na |-> FALSE, v |-> x]

NoStr == [na |-> TRUE, v |-> ""]

NoNum == [na |-> TRUE, v |-> 0]

NoText == [na |-> TRUE, v |-> <<>>]

NoStamp == [na |-> TRUE, v |-> [form |-> "iso", t |-> 0, off |-> ""]]

NoTime == [na |-> TRUE, v |-> [t |-> 0, tz |-> ""]]

\* pd.notna(cell)
notna(c) == ~c.na

\* Number of CSV rows of a run.
MaxRows == 2

(***************************************************************************)
(* Lookup tables of the store: sets of (surrogate key, label) rows.        *)
(***************************************************************************)
AgeRanges == {[age_range_id |-> 1, age_range_label |-> "18-24"]}

Regions == {[region_id |-> 1, region_name |-> "North"]}

IndicatorsFull ==
    { [indicator_id |-> 1, indicator_name |-> "Economic Management"],
      [indicator_id |-> 2, indicator_name |-> "Immigration Policy"],
      [indicator_id |-> 3, indicator_name |-> "Foreign Policy"],
      [indicator_id |-> 4, indicator_name |-> "Domestic Policy"],
      [indicator_id |-> 5, indicator_name |-> "Social Policy"] }

\* An Indicators table that lacks one of the five labels.
IndicatorsPartial == {r \in IndicatorsFull : r.indicator_name # "Social Policy"}

\* indicator_mapping, in dict order: CSV column -> indicator label.
indicator_mapping ==
    << [csv_col |-> "economic_management_rate", indicator_name |-> "Economic Management"],
       [csv_col |-> "immigration_policy_rate",  indicator_name |-> "Immigration Policy"],
       [csv_col |-> "foreign_policy_rate",      indicator_name |-> "Foreign Policy"],
       [csv_col |-> "domestic_policy_rate",     indicator_name |-> "Domestic Policy"],
       [csv_col |-> "social_policy_rate",       indicator_name |-> "Social Policy"] >>

RateCols == {indicator_mapping[k].csv_col : k \in 1..Len(indicator_mapping)}

(***************************************************************************)
(* The CSV.  An id cell is text in some form around a hex payload;         *)
(* created_at is text that is ISO-8601 with an optional offset suffix, or  *)
(* not ISO at all; email is a sequence of characters.                      *)
(***************************************************************************)
ValidHex == {"3fa85f64", "9b2c11d0"}

IdCell(form, hex) == Val([form |-> form, hex |-> hex])

StampCell(form, t, off) == Val([form |-> form, t |-> t, off |-> off])

Rates(v) == [c \in RateCols |-> v]

BaseRow ==
    [ id                |-> IdCell("plain", "3fa85f64"),
      created_at        |-> StampCell("iso", 1, "+00:00"),
      age_range         |-> Val("18-24"),
      region            |-> Val("North"),
      instability_ratio |-> Val(42),
      first_name        |-> Val("Ann"),
      last_name         |-> Val("Lee"),
      email             |-> Val(<<"a", "@", "b">>),
      rates             |-> Rates(Val(30)) ]

OtherRow ==
    [ BaseRow EXCEPT !.id = IdCell("plain", "9b2c11d0"),
                     !.created_at = StampCell("iso", 2, ""),
                     !.rates = [Rates(NoNum) EXCEPT !["economic_management_rate"] = Val(37)] ]

\* The rows a CSV file is drawn from: two well-formed rows and rows that
\* differ from them in the cells the loader and the report look at.
RowPool ==
    { BaseRow,
      OtherRow,
      [BaseRow EXCEPT !.id = IdCell("braced", "3fa85f64")],
      [BaseRow EXCEPT !.id = IdCell("plain", "not-a-uuid")],
      [BaseRow EXCEPT !.id = [na |-> TRUE, v |-> [form |-> "plain", hex |-> ""]],
                      !.created_at = NoStamp],
      [BaseRow EXCEPT !.created_at = StampCell("text", 0, "")],
      [OtherRow EXCEPT !.age_range = NoStr, !.region = Val("Atlantis")],
      [BaseRow EXCEPT !.email = NoText],
      [BaseRow EXCEPT !.email = Val(<<" ", " ">>)],
      [OtherRow EXCEPT !.email = Val(<<" ", "a", " ">>),
                       !.created_at = StampCell("iso", 3, "+02:00"),
                       !.rates = [Rates(Val(-15)) EXCEPT !["foreign_policy_rate"] = NoNum]],
      [OtherRow EXCEPT !.first_name = NoStr, !.last_name = NoStr,
                       !.age_range = Val("unknown"), !.region = NoStr,
                       !.instability_ratio = NoNum, !.rates = Rates(NoNum)] }

CsvFiles == UNION {[1..n -> RowPool] : n \in 0..MaxRows}

(***************************************************************************)
(* The store: three data tables and the Indicators lookup table.  Each     *)
(* data row carries src, the CSV row of this run that inserted it (0 for   *)
(* a row that was in the store before the run).                            *)
(***************************************************************************)
EmptyStore ==
    [Submissions |-> {}, SubmissionScores |-> {}, ReportRequests |-> {}]

OldSubmission ==
    [ src |-> 0, submission_id |-> "3fa85f64", created_at |-> Val([t |-> 0, tz |-> ""]),
      age_range_id |-> NoNum, region_id |-> Val(1), instability_ratio |-> Val(10),
      first_name |-> Val("Old"), last_name |-> NoStr, email |-> Val(<<"o">>) ]

PopulatedStore ==
    [ Submissions      |-> {OldSubmission},
      SubmissionScores |-> {[src |-> 0, submission_id |-> "3fa85f64", indicator_id |-> 2, score_value |-> 4]},
      ReportRequests   |-> {[src |-> 0, submission_id |-> "3fa85f64", status |-> "completed"]} ]

\* The stores a run starts from: the data tables and the Indicators table.
InitialStores ==
    { [data |-> EmptyStore, Indicators |-> IndicatorsFull],
      [data |-> PopulatedStore, Indicators |-> IndicatorsFull],
      [data |-> EmptyStore, Indicators |-> IndicatorsPartial] }

(***************************************************************************)
(* Pure functions the loader applies to a row.                             *)
(***************************************************************************)
\* uuid.UUID replaced by a check that the id is present.
uuid_UUID_any_text(cell) ==
    IF cell.na THEN [ok |-> FALSE, v |-> ""] ELSE [ok |-> TRUE, v |-> cell.v.hex]

\* The id kept as the text of the cell, not as the UUID it denotes.
uuid_UUID_raw_text(cell) ==
    IF cell.na \/ cell.v.hex \notin ValidHex THEN [ok |-> FALSE, v |-> ""]
    ELSE [ok |-> TRUE, v |-> IF cell.v.form = "plain" THEN cell.v.hex ELSE "{braced}"]

\* uuid.UUID(text): the text forms it accepts all denote the hex payload;
\* NaN (a float) and a payload that is not 32 hex digits raise.
uuid_UUID(cell) ==
    IF cell.na THEN [ok |-> FALSE, v |-> ""]
    ELSE IF cell.v.hex \in ValidHex /\ cell.v.form \in {"plain", "braced"}
         THEN [ok |-> TRUE, v |-> cell.v.hex]
         ELSE [ok |-> FALSE, v |-> ""]

\* text.replace('+00:00', '')
replace_utc(text) == [text EXCEPT !.off = IF @ = "+00:00" THEN "" ELSE @]

\* datetime.fromisoformat(row['created_at'].replace('+00:00', '')): NaN has
\* no replace() and text that is not ISO-8601 does not parse; an offset that
\* is left in the text makes the datetime timezone-aware.
parse_created_at(cell) ==
    IF cell.na THEN [ok |-> FALSE, v |-> NoTime.v]
    ELSE LET text == replace_utc(cell.v)
         IN  IF text.form = "iso"
             THEN [ok |-> TRUE, v |-> [t |-> text.t, tz |-> text.off]]
             ELSE [ok |-> FALSE, v |-> NoTime.v]

\* {row.label: row.id for row in cursor.fetchall()}, as a set of (k, v).
AsDict(table, keyf, valf) == {[k |-> r[keyf], v |-> r[valf]] : r \in table}

HasKey(d, k) == \E e \in d : e.k = k

Item(d, k) == (CHOOSE e \in d : e.k = k).v

\* d.get(row[c]) if pd.notna(row[c]) else None
get_label(d, cell) ==
    IF notna(cell) /\ HasKey(d, cell.v) THEN Val(Item(d, cell.v)) ELSE NoNum
\* indicators.get(indicator_name) in place of indicators[indicator_name].
indicators_get(d, name) ==
    IF HasKey(d, name) THEN [ok |-> TRUE, v |-> Item(d, name)]
    ELSE [ok |-> TRUE, v |-> 0]

\* indicators[indicator_name]: KeyError when the label is not cached.
indicators_item(d, name) ==
    IF HasKey(d, name) THEN [ok |-> TRUE, v |-> Item(d, name)]
    ELSE [ok |-> FALSE, v |-> 0]
\* round(x) in place of int(x).
int_round(x) == IF x >= 0 THEN (x + 5) \div 10 ELSE -((5 - x) \div 10)

\* int(x) on a float, x in tenths: truncation toward zero.
int(x) == IF x >= 0 THEN x \div 10 ELSE -((-x) \div 10)

RECURSIVE lstrip(_)
lstrip(s) == IF s # <<>> /\ Head(s) = " " THEN lstrip(Tail(s)) ELSE s

RECURSIVE rstrip(_)
rstrip(s) ==
    IF s # <<>> /\ s[Len(s)] = " " THEN rstrip(SubSeq(s, 1, Len(s) - 1)) ELSE s

\* str.strip()
strip(s) == rstrip(lstrip(s))
\* The test without .strip().
email_notna(cell) == notna(cell)

\* pd.notna(row['email']) and row['email'].strip()
email_given(cell) == notna(cell) /\ strip(cell.v) # <<>>

\* row[c] if pd.notna(row[c]) else None
or_none(cell, none) == IF notna(cell) THEN cell ELSE none

(***************************************************************************)
(* The store's answer to the Submissions insert.  fault is what the        *)
(* store finds wrong besides a duplicate key: nothing, another integrity   *)
(* constraint of the table, or a failure that is no integrity violation.   *)
(***************************************************************************)
Faults == {"none", "constraint", "failure"}

KeyExists(s, id) == \E r \in s.Submissions : r.submission_id = id

execute_insert_submission(s, id, fault) ==
    IF fault = "failure" THEN "Error"
    ELSE IF KeyExists(s, id) \/ fault = "constraint" THEN "IntegrityError"
    ELSE "ok"
\* except Exception
catches_Exception(exc) == exc \in {"IntegrityError", "Error"}

\* except pyodbc.IntegrityError
catches_IntegrityError(exc) == exc = "IntegrityError"
\* The except clause's body as pass: control falls through to the scores.
on_IntegrityError_pass == "scores"

\* The except clause's body: continue.
on_IntegrityError == "for"

\* pyodbc.connect(connection_string, autocommit=True)
autocommit_on == TRUE

\* pyodbc.connect(connection_string): autocommit is off.
autocommit == FALSE

(***************************************************************************)
(* State.                                                                  *)
(***************************************************************************)
VARIABLES
    df,                 \* the CSV rows, read before the run
    db0,                \* the committed store before the run
    Indicators,         \* the store's Indicators table
    committed,          \* the store as committed
    store,              \* the store as the loader's connection sees it
    pc,                 \* position of load_survey_data
    index,              \* the for loop's row number (1-based)
    col,                \* position of the score loop in indicator_mapping
    age_ranges, regions, indicators,                        \* lookup caches
    submission_id, created_at, age_range_id, region_id,     \* row locals
    submissions_loaded, scores_loaded,
    outcome,            \* per CSV row: how its processing went
    conn,               \* the loader's connection: "none", "open", "closed"
    connects, commits,  \* how many times the loader connected / committed
    message,            \* what the loader printed last: "none", "completed", "ERROR"
    rpc,                \* position of generate_sample_report
    rconn,              \* the report job's connection
    rconnects,
    rsubmission_id, submission, scores,                     \* report locals
    user_data, score_data,                                  \* the tables rendered
    filename,
    files               \* the PDF files written to the working directory

loaderVars ==
    << df, db0, Indicators, committed, store, pc, index, col, age_ranges, regions,
       indicators, submission_id, created_at, age_range_id, region_id,
       submissions_loaded, scores_loaded, outcome, conn, connects, commits, message >>

reportVars ==
    << rpc, rconn, rconnects, rsubmission_id, submission, scores, user_data,
       score_data, filename, files >>

vars == << loaderVars, reportVars >>

rowLocals == << submission_id, created_at, age_range_id, region_id >>

caches == << age_ranges, regions, indicators >>

NoSubmission ==
    [ submission_id |-> "", created_at |-> NoTime, instability_ratio |-> NoNum,
      first_name |-> NoStr, last_name |-> NoStr, email |-> NoText,
      age_range_label |-> NoStr, region_name |-> NoStr ]

NoUserData ==
    [ Name |-> <<>>, Email |-> <<>>, SubmissionDate |-> 0, Region |-> "",
      AgeRange |-> "" ]

NoScoreData == [rows |-> {}, ratio |-> [whole |-> 0, frac |-> 0]]

\* Neither job has started.
Idle ==
    /\ pc = "connect"
    /\ index = 0
    /\ col = 0
    /\ age_ranges = {} /\ regions = {} /\ indicators = {}
    /\ submission_id = "" /\ created_at = NoTime
    /\ age_range_id = NoNum /\ region_id = NoNum
    /\ submissions_loaded = 0 /\ scores_loaded = 0
    /\ conn = "none" /\ connects = 0 /\ commits = 0
    /\ message = "none"
    /\ rpc = "connect" /\ rconn = "none" /\ rconnects = 0
    /\ rsubmission_id = "" /\ submission = NoSubmission /\ scores = {}
    /\ user_data = NoUserData /\ score_data = NoScoreData /\ filename = <<>>
    /\ files = {}

\* A loader run: a CSV file and a store.
Init ==
    /\ df \in CsvFiles
    /\ \E s \in InitialStores :
          /\ db0 = s.data
          /\ Indicators = s.Indicators
    /\ committed = db0
    /\ store = db0
    /\ outcome = [i \in 1..Len(df) |-> "todo"]
    /\ Idle

(***************************************************************************)
(* load_survey_data                                                        *)
(***************************************************************************)
\* What an insert does to the committed store: nothing until commit,
\* unless the connection autocommits.
AfterExecute(s) == IF autocommit THEN s ELSE committed

\* conn = pyodbc.connect(connection_string); cursor = conn.cursor()
Connect ==
    /\ pc = "connect"
    /\ conn' = "open"
    /\ connects' = connects + 1
    /\ pc' = "lookups"
    /\ UNCHANGED << df, db0, Indicators, committed, store, index, col, caches,
                    rowLocals, submissions_loaded, scores_loaded, outcome,
                    commits, message, reportVars >>

\* The three lookup SELECTs; a failing query raises inside the try block.
LoadLookups ==
    /\ pc = "lookups"
    /\ \E fails \in BOOLEAN :
          IF fails
          THEN /\ pc' = "except"
               /\ UNCHANGED caches
          ELSE /\ age_ranges' = AsDict(AgeRanges, "age_range_label", "age_range_id")
               /\ regions' = AsDict(Regions, "region_name", "region_id")
               /\ indicators' = AsDict(Indicators, "indicator_name", "indicator_id")
               /\ pc' = "for"
    /\ UNCHANGED << df, db0, Indicators, committed, store, index, col, rowLocals,
                    submissions_loaded, scores_loaded, outcome, conn, connects,
                    commits, message, reportVars >>

\* for index, row in df.iterrows(): the next row and its uuid.UUID(row['id']);
\* a row whose id does not parse is skipped.
NextRow ==
    /\ pc = "for"
    /\ index < Len(df)
    /\ index' = index + 1
    /\ LET u == uuid_UUID(df[index + 1].id)
       IN  IF u.ok
           THEN /\ submission_id' = u.v
                /\ pc' = "parse"
                /\ UNCHANGED outcome
           ELSE /\ outcome' = [outcome EXCEPT ![index + 1] = "bad_id"]
                /\ pc' = "for"
                /\ UNCHANGED submission_id
    /\ UNCHANGED << df, db0, Indicators, committed, store, col, caches, created_at,
                    age_range_id, region_id, submissions_loaded, scores_loaded,
                    conn, connects, commits, message, reportVars >>

\* The loop is exhausted: on to conn.commit().
EndLoop ==
    /\ pc = "for"
    /\ index = Len(df)
    /\ pc' = "commit"
    /\ UNCHANGED << df, db0, Indicators, committed, store, index, col, caches,
                    rowLocals, submissions_loaded, scores_loaded, outcome, conn,
                    connects, commits, message, reportVars >>

\* created_at, age_range_id and region_id of the row.
ParseRow ==
    /\ pc = "parse"
    /\ LET row == df[index]
           ts == parse_created_at(row.created_at)
       IN  IF ts.ok
           THEN /\ created_at' = Val(ts.v)
                /\ age_range_id' = get_label(age_ranges, row.age_range)
                /\ region_id' = get_label(regions, row.region)
                /\ pc' = "insert_submission"
                /\ UNCHANGED outcome
           ELSE /\ outcome' = [outcome EXCEPT ![index] = "bad_timestamp"]
                /\ pc' = "except"
                /\ UNCHANGED << created_at, age_range_id, region_id >>
    /\ UNCHANGED << df, db0, Indicators, committed, store, index, col, caches,
                    submission_id, submissions_loaded, scores_loaded, conn,
                    connects, commits, message, reportVars >>

SubmissionRow ==
    LET row == df[index]
    IN  [ src               |-> index,
          submission_id     |-> submission_id,
          created_at        |-> created_at,
          age_range_id      |-> age_range_id,
          region_id         |-> region_id,
          instability_ratio |-> or_none(row.instability_ratio, NoNum),
          first_name        |-> or_none(row.first_name, NoStr),
          last_name         |-> or_none(row.last_name, NoStr),
          email             |-> or_none(row.email, NoText) ]

\* INSERT INTO Submissions, inside try / except pyodbc.IntegrityError.
InsertSubmission ==
    /\ pc = "insert_submission"
    /\ \E fault \in Faults :
          LET exc == execute_insert_submission(store, submission_id, fault)
          IN  IF exc = "ok"
              THEN /\ store' = [store EXCEPT !.Submissions = @ \cup {SubmissionRow}]
                   /\ committed' = AfterExecute(store')
                   /\ submissions_loaded' = submissions_loaded + 1
                   /\ outcome' = [outcome EXCEPT ![index] = "loaded"]
                   /\ pc' = "scores"
                   /\ col' = 1
              ELSE /\ outcome' = [outcome EXCEPT ![index] =
                          IF KeyExists(store, submission_id) /\ fault # "failure"
                          THEN "duplicate"
                          ELSE IF fault = "constraint" THEN "constraint"
                          ELSE "insert_failure"]
                   /\ IF catches_IntegrityError(exc)
                      THEN /\ pc' = on_IntegrityError
                           /\ col' = IF on_IntegrityError = "scores" THEN 1 ELSE col
                      ELSE /\ pc' = "except"
                           /\ col' = col
                   /\ UNCHANGED << store, committed, submissions_loaded >>
    /\ UNCHANGED << df, db0, Indicators, index, caches, rowLocals, scores_loaded,
                    conn, connects, commits, message, reportVars >>

\* One turn of: for csv_col, indicator_name in indicator_mapping.items().
InsertScore ==
    /\ pc = "scores"
    /\ col <= Len(indicator_mapping)
    /\ LET m    == indicator_mapping[col]
           cell == df[index].rates[m.csv_col]
           key  == indicators_item(indicators, m.indicator_name)
       IN  IF ~notna(cell)
           THEN /\ col' = col + 1
                /\ UNCHANGED << store, committed, scores_loaded, outcome, pc >>
           ELSE IF ~key.ok
           THEN /\ outcome' = [outcome EXCEPT ![index] = "key_error"]
                /\ pc' = "except"
                /\ UNCHANGED << store, committed, scores_loaded, col >>
           ELSE \E fails \in BOOLEAN :
                  IF fails
                  THEN /\ outcome' = [outcome EXCEPT ![index] = "score_failure"]
                       /\ pc' = "except"
                       /\ UNCHANGED << store, committed, scores_loaded, col >>
                  ELSE /\ store' = [store EXCEPT !.SubmissionScores = @ \cup
                              {[ src |-> index, submission_id |-> submission_id,
                                 indicator_id |-> key.v, score_value |-> int(cell.v) ]}]
                       /\ committed' = AfterExecute(store')
                       /\ scores_loaded' = scores_loaded + 1
                       /\ col' = col + 1
                       /\ UNCHANGED << outcome, pc >>
    /\ UNCHANGED << df, db0, Indicators, index, caches, rowLocals,
                    submissions_loaded, conn, connects, commits, message, reportVars >>

\* if pd.notna(row['email']) and row['email'].strip(): INSERT INTO
\* ReportRequests; the end of the loop body.
InsertReportRequest ==
    /\ pc = "scores"
    /\ col > Len(indicator_mapping)
    /\ IF email_given(df[index].email)
       THEN \E fails \in BOOLEAN :
              IF fails
              THEN /\ outcome' = [outcome EXCEPT ![index] = "report_failure"]
                   /\ pc' = "except"
                   /\ UNCHANGED << store, committed >>
              ELSE /\ store' = [store EXCEPT !.ReportRequests = @ \cup
                          {[ src |-> index, submission_id |-> submission_id,
                             status |-> "completed" ]}]
                   /\ committed' = AfterExecute(store')
                   /\ pc' = "for"
                   /\ UNCHANGED outcome
       ELSE /\ pc' = "for"
            /\ UNCHANGED << store, committed, outcome >>
    /\ UNCHANGED << df, db0, Indicators, index, col, caches, rowLocals,
                    submissions_loaded, scores_loaded, conn, connects, commits,
                    message, reportVars >>

\* conn.commit() and the completion messages.
Commit ==
    /\ pc = "commit"
    /\ committed' = store
    /\ commits' = commits + 1
    /\ message' = "completed"
    /\ pc' = "finally"
    /\ UNCHANGED << df, db0, Indicators, store, index, col, caches, rowLocals,
                    submissions_loaded, scores_loaded, outcome, conn, connects,
                    reportVars >>

\* except Exception as e: conn.rollback(); print(f"ERROR: {e}")
Rollback ==
    /\ pc = "except"
    /\ store' = committed
    /\ message' = "ERROR"
    /\ pc' = "finally"
    /\ UNCHANGED << df, db0, Indicators, committed, index, col, caches, rowLocals,
                    submissions_loaded, scores_loaded, outcome, conn, connects,
                    commits, reportVars >>

\* finally: conn.close(); what was not committed is discarded.
Close ==
    /\ pc = "finally"
    /\ conn' = "closed"
    /\ store' = committed
    /\ pc' = "closed"
    /\ UNCHANGED << df, db0, Indicators, committed, index, col, caches, rowLocals,
                    submissions_loaded, scores_loaded, outcome, connects, commits,
                    message, reportVars >>

(***************************************************************************)
(* generate_sample_report                                                  *)
(***************************************************************************)
reportLocals ==
    << rsubmission_id, submission, scores, user_data, score_data, filename, files >>

\* conn = pyodbc.connect(connection_string); cursor = conn.cursor()
\* The job is started once the loader has ended: each job expects to be
\* alone on the store.
ReportConnect ==
    /\ pc = "closed"
    /\ rpc = "connect"
    /\ rconn' = "open"
    /\ rconnects' = rconnects + 1
    /\ rpc' = "latest"
    /\ UNCHANGED << loaderVars, reportLocals >>

\* Rows of: SELECT ... FROM Submissions WHERE email IS NOT NULL
WithEmail(s) == {r \in s.Submissions : notna(r.email)}

\* The rows TOP 1 ... ORDER BY created_at DESC may return.
Latest(rs) == {r \in rs : \A o \in rs : o.created_at.v.t <= r.created_at.v.t}

\* The first query and "if not result: ... return".
SelectLatest ==
    /\ rpc = "latest"
    /\ \E fails \in BOOLEAN :
          IF fails
          THEN /\ rpc' = "crashed"
               /\ UNCHANGED rsubmission_id
          ELSE IF WithEmail(committed) = {}
          THEN /\ rpc' = "not_found"
               /\ UNCHANGED rsubmission_id
          ELSE \E r \in Latest(WithEmail(committed)) :
                  /\ rsubmission_id' = r.submission_id
                  /\ rpc' = "detail"
    /\ UNCHANGED << loaderVars, rconn, rconnects, submission, scores, user_data,
                    score_data, filename, files >>

\* LEFT JOIN: the label of a reference, NULL when there is none.
LeftJoin(table, keyf, labelf, ref) ==
    IF notna(ref) /\ \E l \in table : l[keyf] = ref.v
    THEN Val((CHOOSE l \in table : l[keyf] = ref.v)[labelf])
    ELSE NoStr

\* The second query and submission = cursor.fetchone().
SelectSubmission ==
    /\ rpc = "detail"
    /\ \E fails \in BOOLEAN :
          IF fails
          THEN /\ rpc' = "crashed"
               /\ UNCHANGED submission
          ELSE \E s \in {r \in committed.Submissions : r.submission_id = rsubmission_id} :
                  /\ submission' =
                        [ submission_id     |-> s.submission_id,
                          created_at        |-> s.created_at,
                          instability_ratio |-> s.instability_ratio,
                          first_name        |-> s.first_name,
                          last_name         |-> s.last_name,
                          email             |-> s.email,
                          age_range_label   |-> LeftJoin(AgeRanges, "age_range_id",
                                                         "age_range_label", s.age_range_id),
                          region_name       |-> LeftJoin(Regions, "region_id",
                                                         "region_name", s.region_id) ]
                  /\ rpc' = "scores"
    /\ UNCHANGED << loaderVars, rconn, rconnects, rsubmission_id, scores, user_data,
                    score_data, filename, files >>

\* The third query: scores = {row.indicator_name: row.score_value ...}
SelectScores ==
    /\ rpc = "scores"
    /\ \E fails \in BOOLEAN :
          IF fails
          THEN /\ rpc' = "crashed"
               /\ UNCHANGED scores
          ELSE /\ scores' =
                     { [k |-> i.indicator_name, v |-> ss.score_value] :
                         <<ss, i>> \in { p \in committed.SubmissionScores \X Indicators :
                                           /\ p[1].submission_id = rsubmission_id
                                           /\ p[1].indicator_id = p[2].indicator_id } }
               /\ rpc' = "close"
    /\ UNCHANGED << loaderVars, rconn, rconnects, rsubmission_id, submission,
                    user_data, score_data, filename, files >>

\* conn.close()
ReportClose ==
    /\ rpc = "close"
    /\ rconn' = "closed"
    /\ rpc' = "render"
    /\ UNCHANGED << loaderVars, rconnects, reportLocals >>

\* x or alt, on an optional string
str_or(x, alt) == IF x.na \/ x.v = "" THEN alt ELSE x.v

\* x or alt, on an optional text
text_or(x, alt) == IF x.na \/ x.v = <<>> THEN alt ELSE x.v

\* f"{x:.2f}", x in hundredths
format_2f(x) == [whole |-> x \div 100, frac |-> x % 100]

\* The user information table.
UserData(sub) ==
    [ Name           |-> << str_or(sub.first_name, "N/A"), " ", str_or(sub.last_name, "") >>,
      Email          |-> text_or(sub.email, <<"N/A">>),
      SubmissionDate |-> sub.created_at.v.t,
      Region         |-> str_or(sub.region_name, "N/A"),
      AgeRange       |-> str_or(sub.age_range_label, "N/A") ]

\* filename, the two tables; formatting a None instability_ratio raises.
Render ==
    /\ rpc = "render"
    /\ filename' = << "stability_report_", rsubmission_id, ".pdf" >>
    /\ user_data' = UserData(submission)
    /\ IF notna(submission.instability_ratio)
       THEN /\ score_data' = [ rows  |-> scores,
                               ratio |-> format_2f(submission.instability_ratio.v) ]
            /\ rpc' = "build"
       ELSE /\ rpc' = "crashed"
            /\ UNCHANGED score_data
    /\ UNCHANGED << loaderVars, rconn, rconnects, rsubmission_id, submission, scores,
                    files >>

\* doc.build(story)
Build ==
    /\ rpc = "build"
    /\ files' = files \cup {filename}
    /\ rpc' = "done"
    /\ UNCHANGED << loaderVars, rconn, rconnects, rsubmission_id, submission, scores,
                    user_data, score_data, filename >>

(***************************************************************************)
(* The two jobs are separate programs.  Spec is a loader run; ReportSpec   *)
(* is a loader run followed by a report run against the store it left.     *)
(***************************************************************************)
Next ==
    \/ Connect
    \/ LoadLookups
    \/ NextRow
    \/ EndLoop
    \/ ParseRow
    \/ InsertSubmission
    \/ InsertScore
    \/ InsertReportRequest
    \/ Commit
    \/ Rollback
    \/ Close

Spec == Init /\ [][Next]_vars

ReportNext ==
    \/ ReportConnect
    \/ SelectLatest
    \/ SelectSubmission
    \/ SelectScores
    \/ ReportClose
    \/ Render
    \/ Build

PipelineNext == Next \/ ReportNext

ReportSpec == Init /\ [][PipelineNext]_vars

(***************************************************************************)
(* What the properties speak of, stated on the CSV and the tables alone.   *)
(***************************************************************************)
RowsFrom(s, i) ==
    [ Submissions      |-> {r \in s.Submissions : r.src = i},
      SubmissionScores |-> {r \in s.SubmissionScores : r.src = i},
      ReportRequests   |-> {r \in s.ReportRequests : r.src = i} ]

Plus(s, t) ==
    [ Submissions      |-> s.Submissions \cup t.Submissions,
      SubmissionScores |-> s.SubmissionScores \cup t.SubmissionScores,
      ReportRequests   |-> s.ReportRequests \cup t.ReportRequests ]

\* The id cell is the text of a UUID.
WellFormedId(row) == ~row.id.na /\ row.id.v.hex \in ValidHex

\* The created_at cell is ISO-8601 text.
WellFormedStamp(row) == ~row.created_at.na /\ row.created_at.v.form = "iso"

\* The email cell has a character that is not a blank.
NonBlankEmail(row) ==
    ~row.email.na /\ \E k \in 1..Len(row.email.v) : row.email.v[k] # " "

\* The key the lookup table gives a label, if it gives one.
KeysOf(table, keyf, labelf, cell) ==
    IF cell.na THEN {} ELSE {t[keyf] : t \in {u \in table : u[labelf] = cell.v}}

\* n is x (in tenths) with its fraction dropped.
Truncates(n, x) ==
    IF x >= 0 THEN 10 * n <= x /\ x < 10 * n + 10
    ELSE x <= 10 * n /\ 10 * n - 10 < x

Populated(row) == {k \in 1..Len(indicator_mapping) : ~row.rates[indicator_mapping[k].csv_col].na}

\* Column k of the row is populated and its label is not in Indicators.
Unmapped(row, k) ==
    /\ k \in Populated(row)
    /\ \A t \in Indicators : t.indicator_name # indicator_mapping[k].indicator_name

SubmissionOf(row, i) ==
    LET off == row.created_at.v.off
        ar  == KeysOf(AgeRanges, "age_range_id", "age_range_label", row.age_range)
        rg  == KeysOf(Regions, "region_id", "region_name", row.region)
    IN  [ src               |-> i,
          submission_id     |-> row.id.v.hex,
          created_at        |-> Val([t |-> row.created_at.v.t,
                                     tz |-> IF off = "+00:00" THEN "" ELSE off]),
          age_range_id      |-> IF ar = {} THEN NoNum ELSE Val(CHOOSE x \in ar : TRUE),
          region_id         |-> IF rg = {} THEN NoNum ELSE Val(CHOOSE x \in rg : TRUE),
          instability_ratio |-> IF row.instability_ratio.na THEN NoNum ELSE row.instability_ratio,
          first_name        |-> IF row.first_name.na THEN NoStr ELSE row.first_name,
          last_name         |-> IF row.last_name.na THEN NoStr ELSE row.last_name,
          email             |-> IF row.email.na THEN NoText ELSE row.email ]

ScoreRange == -9..9

ScoresOf(row, i, table) ==
    { r \in [ src : {i}, submission_id : {row.id.v.hex},
              indicator_id : {t.indicator_id : t \in IndicatorsFull},
              score_value : ScoreRange ] :
        \E k \in Populated(row) :
            /\ \E t \in table :
                  /\ t.indicator_name = indicator_mapping[k].indicator_name
                  /\ t.indicator_id = r.indicator_id
            /\ Truncates(r.score_value, row.rates[indicator_mapping[k].csv_col].v) }

ReportsOf(row, i) ==
    IF NonBlankEmail(row)
    THEN {[src |-> i, submission_id |-> row.id.v.hex, status |-> "completed"]}
    ELSE {}

RowsOf(row, i, table) ==
    [ Submissions      |-> {SubmissionOf(row, i)},
      SubmissionScores |-> ScoresOf(row, i, table),
      ReportRequests   |-> ReportsOf(row, i) ]

\* The rows a loaded CSV row i leaves in the store.
ExpectedRows(i) == RowsOf(df[i], i, Indicators)

ExpectedScores(i) == ExpectedRows(i).SubmissionScores

RECURSIVE ExpectedUpTo(_)
ExpectedUpTo(n) ==
    IF n = 0 THEN db0
    ELSE IF outcome[n] = "loaded" THEN Plus(ExpectedUpTo(n - 1), ExpectedRows(n))
    ELSE ExpectedUpTo(n - 1)

Settled == {"bad_id", "duplicate", "constraint", "loaded"}

\* The loop body has run to its end (or to its continue) for row i.
Completed(i) ==
    /\ outcome[i] \in Settled
    /\ i < index \/ (i = index /\ pc \in {"for", "commit", "finally", "closed"})

RolledBack == message = "ERROR"

\* Row i carries an id that is in the store when the row is reached.
IsDuplicateRow(i) ==
    /\ WellFormedId(df[i])
    /\ \/ \E r \in db0.Submissions : r.submission_id = df[i].id.v.hex
       \/ \E j \in 1..(i - 1) :
             /\ outcome[j] = "loaded"
             /\ df[j].id.v.hex = df[i].id.v.hex

(***************************************************************************)
(* Properties.                                                             *)
(***************************************************************************)
\* C1: the run commits at most once and only after the last row; until
\* then, and for good when an error ends the run, the committed store is
\* the store before the run; after the commit it is that store plus the
\* rows of every loaded CSV row, never those of a proper prefix.
C1_CommitOnceAllOrNothing ==
    /\ commits <= 1
    /\ commits = 0 => committed = db0
    /\ commits = 1 =>
          /\ index = Len(df)
          /\ \A i \in 1..Len(df) : outcome[i] \in Settled
          /\ committed = ExpectedUpTo(Len(df))
    /\ RolledBack => commits = 0 /\ store = db0

\* A row was inserted, a later row raised, and the run ended with the
\* store as it was.
C1_Witness ==
    /\ pc = "closed"
    /\ RolledBack
    /\ \E i \in 1..Len(df) : outcome[i] = "loaded" /\ i < index
    /\ outcome[index] = "bad_timestamp"

\* C2 as stated: a row whose id is already in the store adds nothing and
\* the run goes on to the next row.
C2_DuplicateAlwaysSkipped ==
    \A i \in 1..index :
        IsDuplicateRow(i) =>
            /\ RowsFrom(store, i) = EmptyStore
            /\ i = index => pc # "except" /\ ~RolledBack

\* C2, amended: a row whose id is already in the store never adds a row,
\* and the step that detects the duplicate leaves the store as it is and
\* returns to the loop head, so the rows of that id persist; the run goes on
\* unless created_at does not parse (raised before the insert is tried) or
\* the store fails for another reason than an integrity violation.
C2_DuplicateSkipped ==
    /\ [](\A i \in 1..index :
            IsDuplicateRow(i) =>
                /\ RowsFrom(store, i) = EmptyStore
                /\ RowsFrom(committed, i) = EmptyStore
                /\ outcome[i] \in {"todo", "duplicate", "bad_timestamp", "insert_failure"}
                /\ outcome[i] = "bad_timestamp" => ~WellFormedStamp(df[i])
                /\ (outcome[i] = "duplicate" /\ i = index) =>
                      /\ pc \in {"for", "commit", "finally", "closed"}
                      /\ ~RolledBack)
    /\ [][(index > 0 /\ IsDuplicateRow(index) /\ pc = "insert_submission") =>
            /\ store' = store
            /\ committed' = committed
            /\ pc' \in {"for", "except"}
            /\ pc' = "for" => outcome'[index] = "duplicate"]_vars

\* The second of two rows with one id was skipped, the first row's rows are
\* in the store, and the loop went on.
C2_Witness ==
    /\ index = 2
    /\ outcome[1] = "loaded"
    /\ outcome[2] = "duplicate"
    /\ df[1].id.v.form # df[2].id.v.form
    /\ pc = "commit"
    /\ store = Plus(db0, ExpectedRows(1))

\* C3: a row whose id is missing or is not a UUID adds no row and raises
\* nothing, whatever its other cells hold, and the loop goes on.
C3_BadIdSkipped ==
    \A i \in 1..index :
        ~WellFormedId(df[i]) =>
            /\ outcome[i] = "bad_id"
            /\ RowsFrom(store, i) = EmptyStore
            /\ RowsFrom(committed, i) = EmptyStore
            /\ i = index => pc \in {"for", "commit", "finally", "closed"} /\ ~RolledBack

\* A row with a missing id and a created_at that is no timestamp was
\* skipped and the row after it was loaded.
C3_Witness ==
    /\ index = 2
    /\ df[1].id.na
    /\ ~WellFormedStamp(df[1])
    /\ outcome[2] = "loaded"
    /\ message = "completed"

\* C4 as stated: a Submissions insert that violates another constraint
\* than the unique id ends the run.
C4_OtherConstraintAborts ==
    \A i \in 1..index :
        outcome[i] = "constraint" => pc \in {"except", "finally", "closed"} /\ message # "completed"

\* C4, amended: the loader skips the row on every integrity violation of
\* the Submissions insert, the duplicate id and any other constraint alike;
\* every other failure of that insert ends the run with all its work
\* rolled back.
C4_IntegrityErrorSkipsOtherAborts ==
    \A i \in 1..index :
        /\ outcome[i] \in {"duplicate", "constraint"} =>
              /\ RowsFrom(store, i) = EmptyStore
              /\ i = index => pc \in {"for", "commit", "finally", "closed"} /\ ~RolledBack
        /\ outcome[i] = "insert_failure" =>
              /\ i = index
              /\ pc \in {"except", "finally", "closed"}
              /\ commits = 0
              /\ committed = db0
              /\ pc # "except" => store = db0 /\ RolledBack

\* A row that violated another constraint was skipped, the next row was
\* loaded and the run committed.
C4_Witness ==
    /\ index = 2
    /\ outcome[1] = "constraint"
    /\ outcome[2] = "loaded"
    /\ message = "completed"

\* C5 as stated: every row with a non-blank email gets exactly one
\* ReportRequests row.
C5_EveryEmailRowRequested ==
    \A i \in 1..index :
        (Completed(i) /\ ~RolledBack /\ NonBlankEmail(df[i])) =>
            Cardinality(RowsFrom(store, i).ReportRequests) = 1

\* C5, amended: every row whose Submissions insert succeeds gets, by the
\* end of its turn of the loop, exactly one ReportRequests row with its
\* submission id and status "completed" when its email is present and not
\* blank after trimming; a row with an absent or blank email, and a row
\* that was skipped, gets none.
C5_ReportRequestPerLoadedEmail ==
    \A i \in 1..index :
        /\ (Completed(i) /\ ~RolledBack /\ outcome[i] = "loaded") =>
              RowsFrom(store, i).ReportRequests =
                  IF NonBlankEmail(df[i])
                  THEN {[src |-> i, submission_id |-> df[i].id.v.hex, status |-> "completed"]}
                  ELSE {}
        /\ (~NonBlankEmail(df[i]) \/ outcome[i] \in {"bad_id", "duplicate", "constraint"}) =>
              RowsFrom(store, i).ReportRequests = {}

\* A row whose email needs trimming got its request and a row whose email
\* is blanks only got none.
C5_Witness ==
    /\ index = 2
    /\ pc = "commit"
    /\ \E i, j \in 1..2 :
          /\ i # j
          /\ outcome[i] = "loaded" /\ outcome[j] = "loaded"
          /\ df[i].email.v = <<" ", "a", " ">>
          /\ Cardinality(RowsFrom(store, i).ReportRequests) = 1
          /\ df[j].email.v = <<" ", " ">>
          /\ RowsFrom(store, j).ReportRequests = {}

\* C6: a row whose Submissions insert succeeded has, once its turn of the
\* loop has ended, exactly one SubmissionScores row per populated rate
\* column and none for an empty one, each with the column's value
\* truncated to an integer and the key Indicators gives the column's label;
\* five populated columns give five rows.
C6_ScorePerPopulatedColumn ==
    \A i \in 1..index :
        (Completed(i) /\ ~RolledBack /\ outcome[i] = "loaded") =>
            /\ RowsFrom(store, i).SubmissionScores = ExpectedScores(i)
            /\ Cardinality(RowsFrom(store, i).SubmissionScores) = Cardinality(Populated(df[i]))

\* A row with all five columns populated has its five score rows, and a
\* row with a negative fraction has it truncated toward zero.
C6_Witness ==
    /\ index = 2
    /\ pc = "commit"
    /\ \E i, j \in 1..2 :
          /\ Cardinality(Populated(df[i])) = 5
          /\ Cardinality(RowsFrom(store, i).SubmissionScores) = 5
          /\ \E r \in RowsFrom(store, j).SubmissionScores : r.score_value = -1

\* The age_range (region) label of row i has no key: it is missing or it
\* is not in the lookup table.
NoAgeRange(i) == KeysOf(AgeRanges, "age_range_id", "age_range_label", df[i].age_range) = {}

NoRegion(i) == KeysOf(Regions, "region_id", "region_name", df[i].region) = {}

\* C7: a missing or unmapped age_range or region label raises nothing and
\* the Submissions row is inserted with a null reference, whereas a
\* populated rate column whose indicator label is not in the Indicators
\* cache ends the run with everything it inserted rolled back.
C7_LenientLabelsFatalIndicators ==
    \A i \in 1..index :
        /\ \A r \in RowsFrom(store, i).Submissions \cup RowsFrom(committed, i).Submissions :
              /\ NoAgeRange(i) => r.age_range_id = NoNum
              /\ NoRegion(i) => r.region_id = NoNum
        /\ outcome[i] = "bad_timestamp" => ~WellFormedStamp(df[i])
        /\ (outcome[i] \in {"loaded", "key_error"}
                /\ \E k \in 1..Len(indicator_mapping) : Unmapped(df[i], k)) =>
              /\ i = index
              /\ ~Completed(i)
              /\ commits = 0
              /\ committed = db0
              /\ outcome[i] = "key_error" =>
                    /\ pc \in {"except", "finally", "closed"}
                    /\ pc # "except" => store = db0 /\ RolledBack

\* One run in which a row with an unmapped region was loaded with a null
\* region reference and a row with an unmapped indicator label then ended
\* the run, which left the store as it was.
C7_Witness ==
    /\ index = 2
    /\ pc = "closed"
    /\ NoRegion(1) /\ ~df[1].region.na
    /\ outcome[1] = "loaded"
    /\ outcome[2] = "key_error"
    /\ store = db0

\* The report run got as far as building its tables.
Rendering == rpc \in {"build", "done"} \/ (rpc = "crashed" /\ rconn = "closed")

\* C8: every null field of the selected submission is rendered "N/A",
\* never as an empty value, and no null field makes the report run raise
\* instead of writing the document.
C8_NullFieldsRenderNA ==
    /\ Rendering =>
          /\ submission.first_name.na => user_data.Name[1] = "N/A"
          /\ submission.last_name.na => user_data.Name[3] = "N/A"
          /\ submission.region_name.na => user_data.Region = "N/A"
          /\ submission.age_range_label.na => user_data.AgeRange = "N/A"
    /\ ~(rpc = "crashed" /\ rconn = "closed")

\* C9: each job connects once and its connection is closed however the
\* run ends: the loader's after commit and after rollback, the report
\* job's also when no submission has an email and when a query fails.
C9_ConnectionsReleased ==
    /\ connects <= 1 /\ rconnects <= 1
    /\ pc = "closed" => conn = "closed"
    /\ rpc \in {"not_found", "crashed", "done"} => rconn = "closed"

\* C10: every SubmissionScores and ReportRequests row of this run, in the
\* connection's view and in the committed store, has the submission id of
\* a Submissions row the same CSV row inserted, and no such row exists for
\* a CSV row whose Submissions insert was skipped or failed.
C10_DependentsFollowSubmission ==
    \A s \in {store, committed} :
        \A r \in s.SubmissionScores \cup s.ReportRequests :
            r.src > 0 =>
                /\ \E sub \in s.Submissions :
                      sub.src = r.src /\ sub.submission_id = r.submission_id
                /\ r.src <= index
                /\ WellFormedId(df[r.src])
                /\ r.submission_id = df[r.src].id.v.hex
                /\ outcome[r.src] \notin
                      {"todo", "bad_id", "bad_timestamp", "duplicate", "constraint",
                       "insert_failure"}

\* The second row's scores are being inserted after its Submissions row,
\* the first row having been skipped as a duplicate.
C10_Witness ==
    /\ index = 2
    /\ pc = "scores"
    /\ outcome[1] = "duplicate"
    /\ RowsFrom(store, 2).Submissions # {}
    /\ RowsFrom(store, 2).SubmissionScores # {}

====
